---- MODULE Spec2Model ----
(***************************************************************************)
(* fix_cds_names.py: reformat_seq_iq renames the records of a CDS FASTA    *)
(* file to gene_<n> and writes a conversion table of old and new names.    *)
(*                                                                         *)
(* The model follows one call of reformat_seq_iq statement by statement    *)
(* (pc is the position in the function), over a file system that holds the *)
(* two output paths, and lets the call be repeated on the file system the  *)
(* previous call left behind.                                              *)
(*                                                                         *)
(* The 13 character limit is only reached by the record with index 10^8.   *)
(* To reach it the input file is a run of `fill` identical records         *)
(* (FillRecord) followed by the explicit records `recs`; the loop handles  *)
(* the whole run in one step (RenameFill), which is the composition of     *)
(* `fill` iterations of the loop body none of which raises.  The FASTA     *)
(* file written for the run is kept as the number of such records.         *)
(***************************************************************************)
EXTENDS Integers, Sequences, FiniteSets, TLC

VARIABLES
    input,      \* content of the file at input_fasta: [fill, recs]
    fs,         \* the two output paths: [fasta, key], each [exists, content]
    fs0,        \* fs as it was when the current call started
    pc,         \* position of the call in reformat_seq_iq
    err,        \* the exception that ended the call, "none" if none
    count,      \* local variable count
    pair_dict,  \* local variable pair_dict (insertion ordered): [keys, val]
    nread,      \* records SeqIO.parse has yielded so far in this call
    handles,    \* open file objects: [inp, out, key]
    runs,       \* calls started so far
    prev        \* how the previous call ended: "none", "done", "failed"

vars == <<input, fs, fs0, pc, err, count, pair_dict, nread, handles, runs, prev>>

-----------------------------------------------------------------------------
(* Bounds of the model *)

MaxLen == 3            \* explicit records in the input
MaxRuns == 2           \* calls of reformat_seq_iq on the same paths
BigFill == 99999999    \* a long run of records, up to the identifier limit
MidFill == 8999999     \* a run that ends just below index 9,000,000

(* Program constants *)

MaxIdLen == 13

-----------------------------------------------------------------------------
(* Input records: identifier, rest of the header line, sequence *)

Records ==
    { [id |-> "a", desc |-> "",     seq |-> "ACGT"],
      [id |-> "a", desc |-> "dup",  seq |-> "TT"],
      [id |-> "b", desc |-> "note", seq |-> ""] }

FillRecord == [id |-> "a", desc |-> "fill", seq |-> "GG"]

RECURSIVE SeqsUpTo(_)
SeqsUpTo(n) ==
    IF n = 0 THEN { <<>> }
    ELSE LET S == SeqsUpTo(n - 1)
         IN  S \cup { Append(s, r) : s \in { t \in S : Len(t) = n - 1 }, r \in Records }

Inputs == { [fill |-> f, recs |-> s] : f \in {0, MidFill, BigFill}, s \in SeqsUpTo(MaxLen) }

NumRecords(inp) == inp.fill + Len(inp.recs)

\* The record SeqIO.parse yields at 0-based position i: the id is the first
\* token of the header line, the description is the whole header line.
ParsedRecord(inp, i) ==
    LET r == IF i < inp.fill THEN FillRecord ELSE inp.recs[i - inp.fill + 1]
    IN  [id |-> r.id,
         description |-> IF r.desc = "" THEN r.id ELSE r.id \o " " \o r.desc,
         seq |-> r.seq]

-----------------------------------------------------------------------------
(* str(count) and the new identifier *)

Digits == <<"0", "1", "2", "3", "4", "5", "6", "7", "8", "9">>

RECURSIVE Str(_)
Str(n) == IF n < 10 THEN Digits[n + 1] ELSE Str(n \div 10) \o Digits[(n % 10) + 1]

GeneName_from1(n) == "gene_" \o Str(n + 1)
GeneName(n) == "gene_" \o Str(n)

TooLong_off(id) == Len(id) > MaxIdLen + 1
TooLong(id) == Len(id) > MaxIdLen

-----------------------------------------------------------------------------
(* pair_dict: a dict keeps the position of a key's first insertion *)

EmptyDict == [keys |-> <<>>, val |-> <<>>]

HasKey(d, k) == \E i \in 1..Len(d.keys) : d.keys[i] = k

DictSet_first(d, k, v) ==
    IF HasKey(d, k) THEN d
    ELSE [keys |-> Append(d.keys, k), val |-> Append(d.val, v)]
DictSet(d, k, v) ==
    IF HasKey(d, k)
    THEN [keys |-> d.keys,
          val |-> [i \in 1..Len(d.keys) |-> IF d.keys[i] = k THEN v ELSE d.val[i]]]
    ELSE [keys |-> Append(d.keys, k), val |-> Append(d.val, v)]

-----------------------------------------------------------------------------
(* Files *)

EmptyFasta == [fill |-> 0, recs |-> <<>>]

EmptyKey == <<>>

NoFasta == [exists |-> FALSE, content |-> EmptyFasta]

NoKey == [exists |-> FALSE, content |-> EmptyKey]

OldFasta == [exists |-> TRUE,
             content |-> [fill |-> 0,
                          recs |-> << [id |-> "old", description |-> "", seq |-> "CC"] >>]]

header == <<"Original_Name", "New_Name">>

OldKey == [exists |-> TRUE, content |-> << header, <<"old", "gene_0">> >>]

Remove_keep(f, empty) == f
Remove(f, empty) == [exists |-> FALSE, content |-> empty]

OpenW(f, empty) == [exists |-> TRUE, content |-> empty]

NoHandles == [inp |-> FALSE, out |-> FALSE, key |-> FALSE]

Unwind_leak(h) == h
Unwind(h) == NoHandles

StartCount_keep(c) == c
StartCount(c) == 0

\* The record SeqIO.write sends to the output after lines 56 and 68
Renamed_keepdesc(rec, name) == [id |-> name, description |-> rec.description, seq |-> rec.seq]
Renamed(rec, name) == [id |-> name, description |-> "", seq |-> rec.seq]

\* The rows csv.writer writes: the header, then the items of pair_dict
TableRows(d) == <<header>> \o [i \in 1..Len(d.keys) |-> <<d.keys[i], d.val[i]>>]

\* The record at 0-based position i of a FASTA file's content
FastaAt(c, i) ==
    IF i < c.fill
    THEN Renamed(ParsedRecord([fill |-> c.fill, recs |-> <<>>], i), GeneName(i))
    ELSE c.recs[i - c.fill + 1]

FastaLen(c) == c.fill + Len(c.recs)

-----------------------------------------------------------------------------
Init ==
    /\ input \in Inputs
    /\ fs \in [fasta : {NoFasta, OldFasta}, key : {NoKey, OldKey}]
    /\ fs0 = fs
    /\ pc = "remove_fasta"
    /\ err = "none"
    /\ count = 0
    /\ pair_dict = EmptyDict
    /\ nread = 0
    /\ handles = NoHandles
    /\ runs = 1
    /\ prev = "none"

Raise(e) ==
    /\ pc' = "failed"
    /\ err' = e
    /\ handles' = Unwind(handles)

\* lines 41-42
RemoveFasta ==
    /\ pc = "remove_fasta"
    /\ fs' = IF fs.fasta.exists THEN [fs EXCEPT !.fasta = Remove(@, EmptyFasta)] ELSE fs
    /\ pc' = "remove_key"
    /\ UNCHANGED <<input, fs0, err, count, pair_dict, nread, handles, runs, prev>>

\* lines 43-47
RemoveKey ==
    /\ pc = "remove_key"
    /\ fs' = IF fs.key.exists THEN [fs EXCEPT !.key = Remove(@, EmptyKey)] ELSE fs
    /\ pair_dict' = EmptyDict
    /\ count' = StartCount(count)
    /\ pc' = "open_in"
    /\ UNCHANGED <<input, fs0, err, nread, handles, runs, prev>>

\* os.remove raises (lines 42, 44)
RemoveFail ==
    /\ \/ pc = "remove_fasta" /\ fs.fasta.exists
       \/ pc = "remove_key" /\ fs.key.exists
    /\ Raise("OSError")
    /\ UNCHANGED <<input, fs, fs0, count, pair_dict, nread, runs, prev>>

\* line 48
OpenInput ==
    /\ pc = "open_in"
    /\ handles' = [handles EXCEPT !.inp = TRUE]
    /\ nread' = 0
    /\ pc' = "open_out"
    /\ UNCHANGED <<input, fs, fs0, err, count, pair_dict, runs, prev>>

\* line 48: the input file is missing or unreadable
OpenInputFail_late ==
    /\ pc = "open_in"
    /\ Raise("InputError")
    /\ fs' = [fs EXCEPT !.fasta = OpenW(@, EmptyFasta)]
    /\ UNCHANGED <<input, fs0, count, pair_dict, nread, runs, prev>>
OpenInputFail ==
    /\ pc = "open_in"
    /\ Raise("InputError")
    /\ UNCHANGED <<input, fs, fs0, count, pair_dict, nread, runs, prev>>

\* line 49
OpenOutput ==
    /\ pc = "open_out"
    /\ fs' = [fs EXCEPT !.fasta = OpenW(@, EmptyFasta)]
    /\ handles' = [handles EXCEPT !.out = TRUE]
    /\ pc' = "loop"
    /\ UNCHANGED <<input, fs0, err, count, pair_dict, nread, runs, prev>>

\* line 49: the output file cannot be created
OpenOutputFail ==
    /\ pc = "open_out"
    /\ Raise("OutputError")
    /\ UNCHANGED <<input, fs, fs0, count, pair_dict, nread, runs, prev>>

\* lines 50-70 for the `fill` leading records at once; none of them raises
\* because the last of them, the one with the longest name, does not.
RenameFill ==
    /\ pc = "loop"
    /\ nread = 0
    /\ input.fill > 0
    /\ ~TooLong(GeneName(count + input.fill - 1))
    /\ pair_dict' = DictSet(pair_dict, FillRecord.id, GeneName(count + input.fill - 1))
    /\ count' = count + input.fill
    /\ nread' = input.fill
    /\ fs' = [fs EXCEPT !.fasta.content.fill = input.fill]
    /\ UNCHANGED <<input, fs0, pc, err, handles, runs, prev>>

NextRecord == ParsedRecord(input, nread)

AtRecord ==
    /\ pc = "loop"
    /\ nread >= input.fill
    /\ nread < NumRecords(input)

\* lines 50-70, one record that passes the check and is written
RenameRecord ==
    /\ AtRecord
    /\ ~TooLong(GeneName(count))
    /\ pair_dict' = DictSet(pair_dict, NextRecord.id, GeneName(count))
    /\ count' = count + 1
    /\ nread' = nread + 1
    /\ fs' = [fs EXCEPT !.fasta.content.recs = Append(@, Renamed(NextRecord, GeneName(count)))]
    /\ UNCHANGED <<input, fs0, pc, err, handles, runs, prev>>

\* lines 50-63, one record whose new name is too long
RenameTooLong_skip ==
    /\ AtRecord
    /\ TooLong(GeneName(count))
    /\ pair_dict' = DictSet(pair_dict, NextRecord.id, GeneName(count))
    /\ count' = count + 1
    /\ nread' = nread + 1
    /\ UNCHANGED <<input, fs, fs0, pc, err, handles, runs, prev>>
RenameTooLong_written ==
    /\ AtRecord
    /\ TooLong(GeneName(count))
    /\ pair_dict' = DictSet(pair_dict, NextRecord.id, GeneName(count))
    /\ count' = count + 1
    /\ nread' = nread + 1
    /\ fs' = [fs EXCEPT !.fasta.content.recs = Append(@, Renamed(NextRecord, GeneName(count)))]
    /\ Raise("ValueError")
    /\ UNCHANGED <<input, fs0, runs, prev>>
RenameTooLong ==
    /\ AtRecord
    /\ TooLong(GeneName(count))
    /\ pair_dict' = DictSet(pair_dict, NextRecord.id, GeneName(count))
    /\ count' = count + 1
    /\ nread' = nread + 1
    /\ Raise("ValueError")
    /\ UNCHANGED <<input, fs, fs0, runs, prev>>

\* lines 50-70, one record that passes the check; SeqIO.write raises
RenameWriteFail ==
    /\ AtRecord
    /\ ~TooLong(GeneName(count))
    /\ pair_dict' = DictSet(pair_dict, NextRecord.id, GeneName(count))
    /\ count' = count + 1
    /\ nread' = nread + 1
    /\ Raise("OutputError")
    /\ UNCHANGED <<input, fs, fs0, runs, prev>>

\* line 50 at the end of the input, leaving both with blocks (lines 48-70)
EndLoop ==
    /\ pc = "loop"
    /\ nread = NumRecords(input)
    /\ ~(nread = 0 /\ input.fill > 0)
    /\ handles' = [handles EXCEPT !.inp = FALSE, !.out = FALSE]
    /\ pc' = "open_key"
    /\ UNCHANGED <<input, fs, fs0, err, count, pair_dict, nread, runs, prev>>

\* line 75
OpenKey ==
    /\ pc = "open_key"
    /\ fs' = [fs EXCEPT !.key = OpenW(@, EmptyKey)]
    /\ handles' = [handles EXCEPT !.key = TRUE]
    /\ pc' = "write_key"
    /\ UNCHANGED <<input, fs0, err, count, pair_dict, nread, runs, prev>>

\* line 75: the table cannot be created
OpenKeyFail ==
    /\ pc = "open_key"
    /\ Raise("OutputError")
    /\ UNCHANGED <<input, fs, fs0, count, pair_dict, nread, runs, prev>>

\* lines 76-79, leaving the with block
WriteKey ==
    /\ pc = "write_key"
    /\ fs' = [fs EXCEPT !.key.content = TableRows(pair_dict)]
    /\ handles' = [handles EXCEPT !.key = FALSE]
    /\ pc' = "done"
    /\ UNCHANGED <<input, fs0, err, count, pair_dict, nread, runs, prev>>

\* lines 76-79: a write raises after the header row
WriteKeyFail ==
    /\ pc = "write_key"
    /\ fs' = [fs EXCEPT !.key.content = <<header>>]
    /\ Raise("OutputError")
    /\ UNCHANGED <<input, fs0, count, pair_dict, nread, runs, prev>>

\* lines 86-110: the script is run again with the same arguments
Rerun ==
    /\ pc \in {"done", "failed"}
    /\ runs < MaxRuns
    /\ runs' = runs + 1
    /\ prev' = pc
    /\ fs0' = fs
    /\ pc' = "remove_fasta"
    /\ err' = "none"
    /\ UNCHANGED <<input, fs, count, pair_dict, nread, handles>>

Next ==
    \/ RemoveFasta
    \/ RemoveKey
    \/ RemoveFail
    \/ OpenInput
    \/ OpenInputFail
    \/ OpenOutput
    \/ OpenOutputFail
    \/ RenameFill
    \/ RenameRecord
    \/ RenameTooLong
    \/ RenameWriteFail
    \/ EndLoop
    \/ OpenKey
    \/ OpenKeyFail
    \/ WriteKey
    \/ WriteKeyFail
    \/ Rerun

Spec == Init /\ [][Next]_vars

-----------------------------------------------------------------------------
(* What the properties below compare the program's files with.  Label is   *)
(* the expected identifier, written with TLC's ToString rather than Str.   *)

Label(i) == "gene_" \o ToString(i)

\* The first n records of the input, renamed, as a FASTA file content
ExpectedFasta(inp, n) ==
    LET f == IF n < inp.fill THEN n ELSE inp.fill
    IN  [fill |-> f,
         recs |-> [j \in 1..(n - f) |->
                     [id |-> Label(f + j - 1), description |-> "", seq |-> inp.recs[j].seq]]]

\* The original identifiers of the input with the index of the record that
\* carries them; the leading run is one entry, that of its last record.
Carriers(inp) ==
    (IF inp.fill > 0 THEN << [id |-> FillRecord.id, idx |-> inp.fill - 1] >> ELSE << >>)
    \o [j \in 1..Len(inp.recs) |-> [id |-> inp.recs[j].id, idx |-> inp.fill + j - 1]]

FirstOccurrences(c) == { p \in 1..Len(c) : \A q \in 1..(p - 1) : c[q].id # c[p].id }

LastIndex(c, id) ==
    LET P == { p \in 1..Len(c) : c[p].id = id }
    IN  c[CHOOSE p \in P : \A q \in P : q <= p].idx

ExpectedTable(inp) ==
    LET c == Carriers(inp)
        F == FirstOccurrences(c)
        kth(k) == CHOOSE p \in F : Cardinality({ q \in F : q <= p }) = k
    IN  <<header>> \o
        [k \in 1..Cardinality(F) |-> << c[kth(k)].id, Label(LastIndex(c, c[kth(k)].id)) >>]

DistinctIds(inp) == { Carriers(inp)[p].id : p \in 1..Len(Carriers(inp)) }

\* The call has opened the output FASTA and has not failed
Streaming == pc \in {"loop", "open_key", "write_key", "done"}

-----------------------------------------------------------------------------
\* C1: while and after the loop runs, the record written at 0-based position
\* i of the output FASTA has the identifier "gene_" + i whatever the original
\* identifiers were, the identifiers written are pairwise distinct, and count
\* equals the number of records consumed (it starts at 0 and grows by one per
\* record).
C1_SequentialNames ==
    (Streaming \/ err = "ValueError") =>
        LET c == fs.fasta.content
        IN  /\ count = nread
            /\ \A j \in 1..Len(c.recs) : c.recs[j].id = Label(c.fill + j - 1)
            /\ \A i, j \in 1..Len(c.recs) : i # j => c.recs[i].id # c.recs[j].id
            /\ Streaming => FastaLen(c) = count

C1_Witness ==
    /\ pc = "done"
    /\ input.fill = 0
    /\ Len(input.recs) = 3
    /\ input.recs[1].id = input.recs[2].id
    /\ fs.fasta.content.recs[3].id = "gene_2"

\* C2: after a successful run the conversion table is the header row followed
\* by one row per distinct original identifier, in the order of the
\* identifiers' first occurrence, each with the gene_<i> of the last record
\* that carries the identifier.
C2_TableRows ==
    pc = "done" =>
        /\ fs.key.exists
        /\ fs.key.content = ExpectedTable(input)
        /\ Len(fs.key.content) = 1 + Cardinality(DistinctIds(input))

C2_Witness ==
    /\ pc = "done"
    /\ input.fill = 0
    /\ Len(input.recs) = 3
    /\ input.recs[1].id = "a" /\ input.recs[2].id = "b" /\ input.recs[3].id = "a"
    /\ fs.key.content = << header, <<"a", "gene_2">>, <<"b", "gene_1">> >>
    /\ Len(fs.key.content) - 1 < FastaLen(fs.fasta.content)

\* C3: after a successful run on an input of N records the output FASTA holds
\* N records, the k-th with the k-th input record's sequence and an empty
\* description, identifier collisions included.
C3_RecordsPreserved ==
    pc = "done" =>
        LET c == fs.fasta.content
        IN  /\ FastaLen(c) = NumRecords(input)
            /\ c.fill = input.fill
            /\ \A j \in 1..Len(c.recs) :
                 /\ c.recs[j].seq = input.recs[j].seq
                 /\ c.recs[j].description = ""
            /\ c.fill > 0 =>
                 /\ FastaAt(c, c.fill - 1).seq = FillRecord.seq
                 /\ FastaAt(c, c.fill - 1).description = ""

C3_Witness ==
    /\ pc = "done"
    /\ Len(input.recs) = 3
    /\ input.recs[1].id = input.recs[3].id
    /\ input.recs[2].desc # ""
    /\ input.recs[1].seq # input.recs[3].seq
    /\ Len(fs.fasta.content.recs) = 3

\* C4: every record in the output FASTA has an identifier of at most 13
\* characters; a call that has not failed has given every record it consumed
\* a name of at most 13 characters; and a call ended by the length error
\* stopped at the first record whose name is longer, did not write it and
\* consumed nothing after it.
C4_LengthLimit ==
    LET c == fs.fasta.content
    IN  /\ \A j \in 1..Len(c.recs) : Len(c.recs[j].id) <= 13
        /\ c.fill > 0 => Len(FastaAt(c, c.fill - 1).id) <= 13
        /\ (Streaming /\ count > 0) => Len(Label(count - 1)) <= 13
        /\ err = "ValueError" =>
             /\ pc = "failed"
             /\ Len(Label(nread - 1)) > 13
             /\ nread > 1 => Len(Label(nread - 2)) <= 13
             /\ FastaLen(c) = nread - 1

C4_Witness ==
    /\ err = "ValueError"
    /\ pc = "failed"
    /\ nread < NumRecords(input)
    /\ FastaLen(fs.fasta.content) = nread - 1

\* C5 as stated: the record with index 9,000,000 is the first that fails with
\* the length error, so it is never written to the output FASTA and the
\* error is raised at that index.
C5_Original ==
    /\ \A j \in 1..Len(fs.fasta.content.recs) : fs.fasta.content.fill + j - 1 # 9000000
    /\ err = "ValueError" => count - 1 = 9000000

\* C5 amended: the record with index 100,000,000 is the first that fails with
\* the length error; every record with a smaller index is accepted, so a call
\* that has not failed has consumed at most 100,000,000 records and the
\* length error is raised at index 100,000,000 exactly.
C5_FirstFailingIndex ==
    /\ Streaming => count <= 100000000
    /\ err = "ValueError" => count - 1 = 100000000

C5_Witness ==
    /\ err = "ValueError"
    /\ count - 1 = 100000000
    /\ FastaLen(fs.fasta.content) = 100000000

\* C6: a successful run that started from a file system with content at the
\* output paths (left by an earlier run, or there before the first run)
\* leaves both files with what one run on an empty directory produces.
C6_RerunReplaces ==
    (pc = "done" /\ (runs > 1 \/ fs0.fasta.exists \/ fs0.key.exists)) =>
        /\ fs.fasta = [exists |-> TRUE, content |-> ExpectedFasta(input, NumRecords(input))]
        /\ fs.key = [exists |-> TRUE, content |-> ExpectedTable(input)]

C6_Witness ==
    /\ pc = "done"
    /\ runs = 2
    /\ prev = "done"
    /\ fs0 = fs
    /\ NumRecords(input) >= 2

\* C7: a call that fails because the input file cannot be opened ends failed
\* without having created or written either output file and without having
\* opened any file.
C7_InputErrorWritesNothing ==
    err = "InputError" =>
        /\ pc = "failed"
        /\ ~fs.fasta.exists
        /\ ~fs.key.exists
        /\ handles = NoHandles

C7_Witness ==
    /\ err = "InputError"
    /\ runs = 1
    /\ ~fs0.fasta.exists /\ ~fs0.key.exists
    /\ fs = fs0

\* C8: no file is open when the call is done or has failed or has not yet
\* reached its open, and each file is open wherever the call uses it.
C8_HandlesScoped ==
    /\ pc \in {"done", "failed", "remove_fasta", "remove_key", "open_in", "open_key"}
         => handles = NoHandles
    /\ pc = "open_out" => handles = [inp |-> TRUE, out |-> FALSE, key |-> FALSE]
    /\ pc = "loop" => handles = [inp |-> TRUE, out |-> TRUE, key |-> FALSE]
    /\ pc = "write_key" => handles = [inp |-> FALSE, out |-> FALSE, key |-> TRUE]

C8_Witness ==
    /\ pc = "failed"
    /\ err = "ValueError"
    /\ nread > 0
    /\ handles = NoHandles

\* C9: after the length error at index k the output FASTA holds the renamed
\* records with index below k, there is no conversion table file, and the
\* entry for record k exists only in pair_dict.
C9_PartialOutput ==
    err = "ValueError" =>
        LET k == nread - 1
        IN  /\ fs.fasta = [exists |-> TRUE, content |-> ExpectedFasta(input, k)]
            /\ ~fs.key.exists
            /\ \E i \in 1..Len(pair_dict.keys) :
                 /\ pair_dict.keys[i] = ParsedRecord(input, k).id
                 /\ pair_dict.val[i] = Label(k)

C9_Witness ==
    /\ err = "ValueError"
    /\ fs0.key.exists
    /\ ~fs.key.exists
    /\ Len(fs.fasta.content.recs) >= 1

\* C10: both output paths are gone before the input file is opened, so a call
\* that fails on opening the input leaves neither path, also when both files
\* were there when it started.
C10_DeleteBeforeOpen ==
    /\ pc = "open_in" => fs = [fasta |-> NoFasta, key |-> NoKey]
    /\ err = "InputError" =>
         /\ fs = [fasta |-> NoFasta, key |-> NoKey]
         /\ (fs0.fasta.exists \/ fs0.key.exists) => fs # fs0

C10_Witness ==
    /\ err = "InputError"
    /\ prev = "done"
    /\ fs0.fasta.exists /\ fs0.key.exists
    /\ ~fs.fasta.exists /\ ~fs.key.exists

====
